---- MODULE Spec2Model ----
(***************************************************************************)
(* FreshBites supply-health script (src/freshbites/app.py) as a state      *)
(* machine.  One run of the script is one behaviour: the uploaded tables   *)
(* and the two sidebar checkboxes are chosen in Init, and every block of   *)
(* the script is one action, taken in program order.                       *)
(*                                                                         *)
(* Numbers.  pandas computes in IEEE doubles; the model computes in exact  *)
(* rationals n/d and keeps NaN, +inf, -inf and "text" (a cell read_csv     *)
(* could not parse, which makes its whole column dtype object) as values   *)
(* of their own.  On the input sets below every comparison and rounding    *)
(* the script makes has the same outcome in doubles as in exact            *)
(* arithmetic (the operands are ratios of small integers, far from every   *)
(* threshold unless exactly on it, and every exact tie is a dyadic number).*)
(* Numeric columns are float64 unless they hold text.                      *)
(*                                                                         *)
(* Columns.  A column holding text has dtype object, and arithmetic or an  *)
(* ordering comparison on it raises TypeError; the run then ends           *)
(* (pc = "crashed").  Text is modelled in on_time_deliveries and           *)
(* avg_daily_usage; the pass-through columns (supplier_id, price_index,    *)
(* priority, is_backup) only matter to the required-column check.          *)
(***************************************************************************)
EXTENDS Integers, Sequences, FiniteSets

VARIABLES
    pc,                \* position in the script
    cow,               \* pandas build: copy-on-write (3.x) or not (1.x/2.x)
    sim_delay,         \* sidebar checkbox, line 24
    sim_demand_spike,  \* sidebar checkbox, line 25
    sup_columns,       \* suppliers.columns
    inv_columns,       \* inventory.columns
    suppliers,         \* supplier table (rows)
    inventory,         \* inventory table as uploaded (rows)
    reliability_pct,   \* suppliers["reliability_pct"]
    reliability_band,  \* suppliers["reliability_band"]
    rel_map,           \* name -> reliability_pct
    lt_map,            \* name -> avg_lead_time_days
    inv,               \* inventory.copy(), with the columns the script rewrites
    primary_reliability,
    backup_reliability,
    days_of_cover,
    reorder_point,
    reorder_qty,
    stock_risk,
    supply_risk,
    overall_risk,
    recommendation,
    kpis,              \* the four st.metric values
    error,             \* st.error messages shown
    raised             \* exception that ended the run ("" if none)

vars == <<pc, cow, sim_delay, sim_demand_spike, sup_columns, inv_columns,
          suppliers, inventory, reliability_pct, reliability_band, rel_map,
          lt_map, inv, primary_reliability, backup_reliability, days_of_cover,
          reorder_point, reorder_qty, stock_risk, supply_risk, overall_risk,
          recommendation, kpis, error, raised>>

derived == <<reliability_pct, reliability_band, rel_map, lt_map, inv,
             primary_reliability, backup_reliability, days_of_cover,
             reorder_point, reorder_qty, stock_risk, supply_risk,
             overall_risk, recommendation, kpis>>

(***************************************************************************)
(* float64 cells                                                           *)
(***************************************************************************)
RECURSIVE GCD(_, _)
GCD(a, b) == IF b = 0 THEN a ELSE GCD(b, a % b)

Abs(n) == IF n < 0 THEN -n ELSE n

\* the rational n/d (d # 0) in lowest terms with a positive denominator
Num(n, d) ==
    LET s == IF d < 0 THEN -1 ELSE 1
        g == GCD(Abs(n), Abs(d))
    IN  [k |-> "num", n |-> (s * n) \div g, d |-> (s * d) \div g]

NaN == [k |-> "nan", n |-> 0, d |-> 1]
PosInf == [k |-> "inf", n |-> 1, d |-> 1]
NegInf == [k |-> "ninf", n |-> -1, d |-> 1]
\* a cell holding text that is no number
Text == [k |-> "str", n |-> 0, d |-> 1]

IsNum(x) == x.k = "num"
IsNaN(x) == x.k = "nan"

\* a / b on float64 Series
FDiv(a, b) ==
    IF IsNaN(a) \/ IsNaN(b) THEN NaN
    ELSE IF b.n = 0
         THEN IF a.n = 0 THEN NaN ELSE IF a.n > 0 THEN PosInf ELSE NegInf
         ELSE Num(a.n * b.d, a.d * b.n)

FMul(a, b) == IF IsNum(a) /\ IsNum(b) THEN Num(a.n * b.n, a.d * b.d) ELSE NaN
FAdd(a, b) == IF IsNum(a) /\ IsNum(b) THEN Num(a.n * b.d + b.n * a.d, a.d * b.d) ELSE NaN
FSub(a, b) == IF IsNum(a) /\ IsNum(b) THEN Num(a.n * b.d - b.n * a.d, a.d * b.d) ELSE NaN

\* a < b, a <= b, a > b on floats: False when either side is NaN
FLt(a, b) == IsNum(a) /\ IsNum(b) /\ a.n * b.d < b.n * a.d
FLe(a, b) == IsNum(a) /\ IsNum(b) /\ a.n * b.d <= b.n * a.d
FGt(a, b) == FLt(b, a)

\* .replace([np.inf, -np.inf], np.nan)
ReplaceInf(x) == IF x.k \in {"inf", "ninf"} THEN NaN ELSE x
\* .fillna(v)
FillNa(x, v) == IF IsNaN(x) THEN v ELSE x
\* .clip(lower=lo)
ClipLower(x, lo) == IF FLt(x, lo) THEN lo ELSE x
\* pd.to_numeric(errors="coerce")
ToNumeric(x) == IF x.k = "str" THEN NaN ELSE x

\* the integer nearest to n/d (d > 0), ties to the even one: np.round
RoundHalfEven(n, d) ==
    LET q == n \div d
        r == n % d
    IN  IF 2 * r < d THEN q
        ELSE IF 2 * r > d THEN q + 1
        ELSE IF q % 2 = 0 THEN q ELSE q + 1

\* .round(0) and .round(2) of a float
Round0(x) == IF IsNum(x) THEN Num(RoundHalfEven(x.n, x.d), 1) ELSE x
Round2(x) == IF IsNum(x) THEN Num(RoundHalfEven(100 * x.n, x.d), 100) ELSE x

\* f"{x:.1f}": the text of x to one decimal, as a number of tenths
FormatF1(x) ==
    IF IsNum(x) THEN [text |-> "num", tenths |-> RoundHalfEven(10 * x.n, x.d)]
    ELSE [text |-> x.k, tenths |-> 0]

\* a column of a table, and whether its dtype is object (it holds text)
Column(t, c) == [i \in DOMAIN t |-> t[i][c]]
IsObject(col) == \E i \in DOMAIN col : col[i].k = "str"

\* dict(zip(keys, vals)): a later row overwrites an earlier one
DictZip(keys, vals) ==
    [name \in {keys[i] : i \in DOMAIN keys} |->
        LET last == CHOOSE i \in DOMAIN keys :
                        /\ keys[i] = name
                        /\ \A j \in DOMAIN keys : keys[j] = name => j <= i
        IN  vals[last]]

\* Series.map(dict): NaN for a key the dict does not hold
MapGet(m, key) == IF key \in DOMAIN m THEN m[key] ELSE NaN

(***************************************************************************)
(* Line 39-44: required columns                                            *)
(***************************************************************************)
required_sup_cols ==
    {"supplier_id", "supplier_name", "total_deliveries", "on_time_deliveries",
     "avg_lead_time_days", "price_index", "priority", "is_backup"}

required_inv_cols ==
    {"material", "current_stock", "safety_stock", "avg_daily_usage",
     "primary_supplier", "backup_supplier", "lead_time_days"}

\* the words of the st.error message of line 43
ErrorText ==
    <<"Please", "provide", "valid", "CSVs", "with", "required", "columns",
      "(see", "sidebar).">>

\* faulty variant of SchemaInvalid: refuses only when both tables are broken
SchemaInvalidBoth ==
    /\ ~(required_sup_cols \subseteq sup_columns)
    /\ ~(required_inv_cols \subseteq inv_columns)

\* the condition of line 42
SchemaInvalid ==
    \/ ~(required_sup_cols \subseteq sup_columns)
    \/ ~(required_inv_cols \subseteq inv_columns)

Validate ==
    /\ pc = "start"
    /\ IF SchemaInvalid
       THEN /\ error' = Append(error, ErrorText)
            /\ pc' = "stopped"
       ELSE /\ error' = error
            /\ pc' = "simulate"
    /\ UNCHANGED <<cow, sim_delay, sim_demand_spike, sup_columns, inv_columns,
                   suppliers, inventory, raised>>
    /\ UNCHANGED derived

(***************************************************************************)
(* Line 46-53: simulations                                                 *)
(***************************************************************************)
\* the delay subtracted from Supplier B's on-time deliveries, line 49
DelayPenalty == 2

\* line 49, per row: (on_time_deliveries - 2).clip(lower=0) for Supplier B
DelayedRow(r) ==
    IF r.supplier_name = "Supplier B"
    THEN [r EXCEPT !.on_time_deliveries =
                ClipLower(FSub(@, Num(DelayPenalty, 1)), Num(0, 1))]
    ELSE r

\* line 53, per row: (avg_daily_usage * 1.3).round(2) for Flour
SpikedRow(r) ==
    IF r.material = "Flour"
    THEN [r EXCEPT !.avg_daily_usage = Round2(FMul(@, Num(13, 10)))]
    ELSE r

ApplySimulations ==
    LET delay == sim_delay /\ \E i \in DOMAIN suppliers :
                                  suppliers[i].supplier_name = "Supplier B"
        spike == sim_demand_spike /\ \E i \in DOMAIN inventory :
                                         inventory[i].material = "Flour"
        delayRaises == delay /\ IsObject(Column(suppliers, "on_time_deliveries"))
        spikeRaises == spike /\ IsObject(Column(inventory, "avg_daily_usage"))
    IN  /\ pc = "simulate"
        /\ suppliers' = IF delay /\ ~delayRaises
                        THEN [i \in DOMAIN suppliers |-> DelayedRow(suppliers[i])]
                        ELSE suppliers
        /\ inventory' = IF spike /\ ~delayRaises /\ ~spikeRaises
                        THEN [i \in DOMAIN inventory |-> SpikedRow(inventory[i])]
                        ELSE inventory
        /\ IF delayRaises \/ spikeRaises
           THEN pc' = "crashed" /\ raised' = "TypeError"
           ELSE pc' = "score" /\ raised' = raised
        /\ UNCHANGED <<cow, sim_delay, sim_demand_spike, sup_columns,
                       inv_columns, error>>
        /\ UNCHANGED derived

(***************************************************************************)
(* Line 55-62: supplier reliability                                        *)
(***************************************************************************)
\* line 57
ReliabilityPct(on_time, total) ==
    FMul(FillNa(ReplaceInf(FDiv(on_time, total)), Num(0, 1)), Num(100, 1))

\* line 58-62: pd.cut with bins (-0.1, 74.99], (74.99, 89.99], (89.99, 100];
\* a value in no bin gets no label (NaN)
ReliabilityBand(pct) ==
    IF ~IsNum(pct) \/ FLe(pct, Num(-1, 10)) THEN "NaN"
    ELSE IF FLe(pct, Num(7499, 100)) THEN "Risk (<75%)"
    ELSE IF FLe(pct, Num(8999, 100)) THEN "Watch (75-89%)"
    ELSE IF FLe(pct, Num(100, 1)) THEN "Reliable (90%+)"
    ELSE "NaN"

ComputeReliability ==
    LET raises == \/ IsObject(Column(suppliers, "on_time_deliveries"))
                  \/ IsObject(Column(suppliers, "total_deliveries"))
        pct == [i \in DOMAIN suppliers |->
                    ReliabilityPct(suppliers[i].on_time_deliveries,
                                   suppliers[i].total_deliveries)]
    IN  /\ pc = "score"
        /\ IF raises
           THEN /\ pc' = "crashed"
                /\ raised' = "TypeError"
                /\ UNCHANGED <<reliability_pct, reliability_band>>
           ELSE /\ pc' = "join"
                /\ raised' = raised
                /\ reliability_pct' = pct
                /\ reliability_band' = [i \in DOMAIN pct |-> ReliabilityBand(pct[i])]
        /\ UNCHANGED <<cow, sim_delay, sim_demand_spike, sup_columns,
                       inv_columns, suppliers, inventory, error, rel_map,
                       lt_map, inv, primary_reliability, backup_reliability,
                       days_of_cover, reorder_point, reorder_qty, stock_risk,
                       supply_risk, overall_risk, recommendation, kpis>>

(***************************************************************************)
(* Line 64-75: supplier reliability and lead time joined into inventory    *)
(***************************************************************************)
\* the lead time used when neither the record nor its supplier has one, line 74
DefaultLeadTime == 5

\* faulty variant of Reliability: the lookup without .fillna(0.0)
ReliabilityNoFill(m, name) == MapGet(m, name)

\* line 69-70: .map(rel_map).fillna(0.0)
Reliability(m, name) == FillNa(MapGet(m, name), Num(0, 1))

\* faulty variant of LeadTime: a lead time <= 0 is kept
LeadTimeKeepsNonPositive(own, m, primary) ==
    IF IsNaN(own)
    THEN FillNa(MapGet(m, primary), Num(DefaultLeadTime, 1))
    ELSE own

\* line 73-75, per row
LeadTime(own, m, primary) ==
    IF IsNaN(own) \/ FLe(own, Num(0, 1))
    THEN FillNa(MapGet(m, primary), Num(DefaultLeadTime, 1))
    ELSE own

JoinSuppliers ==
    LET names == Column(suppliers, "supplier_name")
        rel == DictZip(names, reliability_pct)
        lt == DictZip(names, Column(suppliers, "avg_lead_time_days"))
        raises == IsObject(Column(inventory, "lead_time_days"))
    IN  /\ pc = "join"
        /\ rel_map' = rel
        /\ lt_map' = lt
        /\ primary_reliability' =
               [i \in DOMAIN inventory |-> Reliability(rel, inventory[i].primary_supplier)]
        /\ backup_reliability' =
               [i \in DOMAIN inventory |-> Reliability(rel, inventory[i].backup_supplier)]
        /\ IF raises
           THEN /\ pc' = "crashed"
                /\ raised' = "TypeError"
                /\ inv' = inventory
           ELSE /\ pc' = "metrics"
                /\ raised' = raised
                /\ inv' = [i \in DOMAIN inventory |->
                              [inventory[i] EXCEPT !.lead_time_days =
                                   LeadTime(@, lt, inventory[i].primary_supplier)]]
        /\ UNCHANGED <<cow, sim_delay, sim_demand_spike, sup_columns,
                       inv_columns, suppliers, inventory, error,
                       reliability_pct, reliability_band, days_of_cover,
                       reorder_point, reorder_qty, stock_risk, supply_risk,
                       overall_risk, recommendation, kpis>>

(***************************************************************************)
(* Line 77-89: health metrics                                              *)
(***************************************************************************)
\* line 78, per row
DaysOfCover(current_stock, avg_daily_usage) ==
    FillNa(ReplaceInf(FDiv(current_stock, avg_daily_usage)), Num(0, 1))

\* line 79 and 81, per row
ReorderPoint(safety_stock, lead_time_days, avg_daily_usage) ==
    ToNumeric(FAdd(safety_stock, FMul(lead_time_days, avg_daily_usage)))

\* line 85-86: Series.fillna(0, inplace=True) on a column taken from the
\* frame: it fills the frame's column, except under copy-on-write, where it
\* fills a temporary and the frame keeps its NaN
FillNaInplace(x) == IF cow THEN x ELSE FillNa(x, Num(0, 1))

\* faulty variant of ReorderQty: without .clip(lower=0)
ReorderQtyNoClip(point, current_stock) == Round0(FSub(point, current_stock))

\* line 89 before .astype(int), per row
ReorderQty(point, current_stock) ==
    Round0(ClipLower(FSub(point, current_stock), Num(0, 1)))

HealthMetrics ==
    LET rows == DOMAIN inv
        raises78 == \/ IsObject(Column(inv, "current_stock"))
                    \/ IsObject(Column(inv, "avg_daily_usage"))
        raises79 == IsObject(Column(inv, "safety_stock"))
        cover == [i \in rows |-> DaysOfCover(inv[i].current_stock, inv[i].avg_daily_usage)]
        point == [i \in rows |->
                     FillNaInplace(ReorderPoint(inv[i].safety_stock,
                                                inv[i].lead_time_days,
                                                inv[i].avg_daily_usage))]
        stock == [i \in rows |-> FillNaInplace(ToNumeric(inv[i].current_stock))]
        qty == [i \in rows |-> ReorderQty(point[i], stock[i])]
        raises89 == \E i \in rows : ~IsNum(qty[i])
    IN  /\ pc = "metrics"
        /\ days_of_cover' = IF raises78 THEN days_of_cover ELSE cover
        /\ IF raises78 \/ raises79
           THEN /\ pc' = "crashed"
                /\ raised' = "TypeError"
                /\ UNCHANGED <<inv, reorder_point, reorder_qty>>
           ELSE /\ reorder_point' = point
                /\ inv' = [i \in rows |-> [inv[i] EXCEPT !.current_stock = stock[i]]]
                /\ IF raises89
                   THEN /\ pc' = "crashed"
                        /\ raised' = "ValueError"
                        /\ UNCHANGED reorder_qty
                   ELSE /\ pc' = "risk"
                        /\ raised' = raised
                        /\ reorder_qty' = [i \in rows |-> qty[i].n]
        /\ UNCHANGED <<cow, sim_delay, sim_demand_spike, sup_columns,
                       inv_columns, suppliers, inventory, error,
                       reliability_pct, reliability_band, rel_map, lt_map,
                       primary_reliability, backup_reliability, stock_risk,
                       supply_risk, overall_risk, recommendation, kpis>>

(***************************************************************************)
(* Line 92-95: risk rules.  overall_risk is written "Risk" / "OK" here,    *)
(* without the symbol the script puts in front.                            *)
(***************************************************************************)
\* the reliability below which a supplier is unreliable, line 94 and 107
ReliabilityThreshold == 75

StockRisk(current_stock, safety_stock) ==
    IF FLt(current_stock, safety_stock) THEN "Low Stock" ELSE "OK"

SupplyRisk(reliability) ==
    IF FLt(reliability, Num(ReliabilityThreshold, 1)) THEN "Unreliable Supplier" ELSE "OK"

OverallRisk(stock, supply) ==
    IF stock # "OK" \/ supply # "OK" THEN "Risk" ELSE "OK"

RiskRules ==
    LET stock == [i \in DOMAIN inv |-> StockRisk(inv[i].current_stock, inv[i].safety_stock)]
        supply == [i \in DOMAIN inv |-> SupplyRisk(primary_reliability[i])]
    IN  /\ pc = "risk"
        /\ stock_risk' = stock
        /\ supply_risk' = supply
        /\ overall_risk' = [i \in DOMAIN inv |-> OverallRisk(stock[i], supply[i])]
        /\ pc' = "recommend"
        /\ UNCHANGED <<cow, sim_delay, sim_demand_spike, sup_columns,
                       inv_columns, suppliers, inventory, error, raised,
                       reliability_pct, reliability_band, rel_map, lt_map, inv,
                       primary_reliability, backup_reliability, days_of_cover,
                       reorder_point, reorder_qty, recommendation, kpis>>

(***************************************************************************)
(* Line 97-116: recommendations.  A recommendation is the sequence of its  *)
(* sentences (the script joins them with a blank); a sentence is its       *)
(* wording ("kind") with the values formatted into it.                     *)
(***************************************************************************)
\* the row inv.apply hands to recommend
Row(i) ==
    [material |-> inv[i].material,
     current_stock |-> inv[i].current_stock,
     primary_supplier |-> inv[i].primary_supplier,
     backup_supplier |-> inv[i].backup_supplier,
     lead_time_days |-> inv[i].lead_time_days,
     primary_reliability |-> primary_reliability[i],
     backup_reliability |-> backup_reliability[i],
     days_of_cover |-> days_of_cover[i],
     reorder_point |-> reorder_point[i],
     reorder_qty |-> reorder_qty[i]]

\* line 100-106
ReorderRule(row) ==
    IF FLt(row.current_stock, row.reorder_point)
    THEN <<[kind |-> "Reorder",
            qty |-> row.reorder_qty,
            material |-> row.material,
            target |-> IF FGt(row.backup_reliability, row.primary_reliability)
                       THEN <<row.backup_supplier, "(backup)">>
                       ELSE <<row.primary_supplier>>]>>
    ELSE <<>>

\* faulty variant of ReliabilityRule: the threshold as a fraction, 0.75
ReliabilityRuleFraction(row) ==
    IF FLt(row.primary_reliability, Num(ReliabilityThreshold, 100))
    THEN IF FGt(row.backup_reliability, row.primary_reliability)
         THEN <<[kind |-> "Switch supplier",
                 material |-> row.material,
                 to |-> row.backup_supplier]>>
         ELSE <<[kind |-> "Keep primary", material |-> row.material]>>
    ELSE <<>>

\* line 107-111
ReliabilityRule(row) ==
    IF FLt(row.primary_reliability, Num(ReliabilityThreshold, 1))
    THEN IF FGt(row.backup_reliability, row.primary_reliability)
         THEN <<[kind |-> "Switch supplier",
                 material |-> row.material,
                 to |-> row.backup_supplier]>>
         ELSE <<[kind |-> "Keep primary", material |-> row.material]>>
    ELSE <<>>

\* line 112-113
CoverRule(row) ==
    IF FLt(row.days_of_cover, row.lead_time_days)
    THEN <<[kind |-> "Increase safety stock",
            material |-> row.material,
            days_of_cover |-> FormatF1(row.days_of_cover),
            lead_time |-> row.lead_time_days]>>
    ELSE <<>>

NoAction == <<[kind |-> "No action needed."]>>

\* faulty variant of recommend: the cover check appended before the
\* reliability check
recommendCoverFirst(row) ==
    LET recs == ReorderRule(row) \o CoverRule(row) \o ReliabilityRule(row)
    IN  IF recs # <<>> THEN recs ELSE NoAction

\* line 98-114
recommend(row) ==
    LET recs == ReorderRule(row) \o ReliabilityRule(row) \o CoverRule(row)
    IN  IF recs # <<>> THEN recs ELSE NoAction

Recommend ==
    /\ pc = "recommend"
    /\ recommendation' = [i \in DOMAIN inv |-> recommend(Row(i))]
    /\ pc' = "kpis"
    /\ UNCHANGED <<cow, sim_delay, sim_demand_spike, sup_columns, inv_columns,
                   suppliers, inventory, error, raised, reliability_pct,
                   reliability_band, rel_map, lt_map, inv, primary_reliability,
                   backup_reliability, days_of_cover, reorder_point,
                   reorder_qty, stock_risk, supply_risk, overall_risk, kpis>>

(***************************************************************************)
(* Line 118-127: KPIs                                                      *)
(***************************************************************************)
RECURSIVE SumFloat(_)
SumFloat(col) ==
    IF col = <<>> THEN Num(0, 1) ELSE FAdd(col[1], SumFloat(Tail(col)))

RECURSIVE SumInt(_)
SumInt(col) == IF col = <<>> THEN 0 ELSE col[1] + SumInt(Tail(col))

\* Series.mean(): NaN for an empty column
Mean(col) == FDiv(SumFloat(col), Num(Len(col), 1))

ShowKPIs ==
    /\ pc = "kpis"
    /\ kpis' = <<[suppliers |-> Len(suppliers),
                  avg_reliability |-> FormatF1(Mean(reliability_pct)),
                  at_risk |-> Cardinality({i \in DOMAIN inv : overall_risk[i] # "OK"}),
                  total_reorder |-> SumInt(reorder_qty)]>>
    /\ pc' = "done"
    /\ UNCHANGED <<cow, sim_delay, sim_demand_spike, sup_columns, inv_columns,
                   suppliers, inventory, error, raised, reliability_pct,
                   reliability_band, rel_map, lt_map, inv, primary_reliability,
                   backup_reliability, days_of_cover, reorder_point,
                   reorder_qty, stock_risk, supply_risk, overall_risk,
                   recommendation>>

(***************************************************************************)
(* Inputs: the two uploaded tables, their columns, the two checkboxes and  *)
(* the pandas build.  A ledger has at least one row: on an empty frame     *)
(* DataFrame.apply (line 116) calls recommend on no row at all.            *)
(***************************************************************************)
MaxSuppliers == 2
MaxMaterials == 2

\* the tables of at most max rows drawn from rows
Tables(rows, max) == UNION {[1..n -> rows] : n \in 0..max}

SupplierRows ==
    [supplier_name : {"Supplier A", "Supplier B"},
     total_deliveries : {Num(0, 1), Num(4, 1), Num(20, 1)},
     on_time_deliveries : {Text, Num(3, 1), Num(18, 1)},
     avg_lead_time_days : {NaN, Num(2, 1)}]

InventoryRows ==
    [material : {"Flour", "Sugar"},
     current_stock : {NaN, Num(1, 1), Num(6, 1)},
     safety_stock : {NaN, Num(0, 1), Num(2, 1)},
     avg_daily_usage : {Num(0, 1), Num(1, 1), Num(3, 2)},
     primary_supplier : {"Supplier A", "Supplier B"},
     backup_supplier : {"Supplier A", "Supplier B"},
     lead_time_days : {NaN, Num(-1, 1), Num(1, 1)}]

Supplier(name, total, on_time, lead) ==
    [supplier_name |-> name, total_deliveries |-> total,
     on_time_deliveries |-> on_time, avg_lead_time_days |-> lead]

\* rosters the ledgers are checked against
Rosters ==
    {<<>>,
     <<Supplier("Supplier A", Num(20, 1), Num(18, 1), Num(2, 1))>>,
     <<Supplier("Supplier A", Num(20, 1), Num(3, 1), NaN),
       Supplier("Supplier B", Num(4, 1), Num(3, 1), Num(2, 1))>>,
     <<Supplier("Supplier B", Num(20, 1), Num(18, 1), Num(0, 1)),
       Supplier("Supplier A", Num(4, 1), Num(3, 1), Num(2, 1)),
       Supplier("Supplier B", NaN, Num(0, 1), NaN)>>}

Material(name, stock, safety, usage, primary, backup, lead) ==
    [material |-> name, current_stock |-> stock, safety_stock |-> safety,
     avg_daily_usage |-> usage, primary_supplier |-> primary,
     backup_supplier |-> backup, lead_time_days |-> lead]

\* rows that fill a ledger beyond its first row
FillerRows ==
    {Material("Flour", Num(50, 1), Num(20, 1), Num(10, 1), "Supplier B", "Supplier A", Num(3, 1)),
     Material("Sugar", Num(5, 1), Num(10, 1), Text, "Supplier A", "Supplier B", NaN)}

\* ledgers the rosters are checked against
Ledgers ==
    {<<Material("Flour", Num(50, 1), Num(20, 1), Num(10, 1), "Supplier B", "Supplier A", Num(3, 1)),
       Material("Sugar", Num(5, 1), Num(10, 1), Num(2, 1), "Supplier A", "Supplier B", NaN)>>}

\* column sets with a required column missing
BrokenSupplierColumns ==
    {required_sup_cols \ {"total_deliveries"},
     required_sup_cols \ {"priority", "is_backup"}}

BrokenInventoryColumns ==
    {required_inv_cols \ {"lead_time_days"}, (required_inv_cols \ {"material"}) \cup {"notes"}}

InitCommon ==
    /\ pc = "start"
    /\ reliability_pct = <<>>
    /\ reliability_band = <<>>
    /\ rel_map = <<>>
    /\ lt_map = <<>>
    /\ inv = <<>>
    /\ primary_reliability = <<>>
    /\ backup_reliability = <<>>
    /\ days_of_cover = <<>>
    /\ reorder_point = <<>>
    /\ reorder_qty = <<>>
    /\ stock_risk = <<>>
    /\ supply_risk = <<>>
    /\ overall_risk = <<>>
    /\ recommendation = <<>>
    /\ kpis = <<>>
    /\ error = <<>>
    /\ raised = ""

\* a table lacks a required column
InitSchema ==
    /\ InitCommon
    /\ \/ /\ sup_columns \in BrokenSupplierColumns
          /\ inv_columns \in BrokenInventoryColumns \cup {required_inv_cols}
       \/ /\ sup_columns = required_sup_cols \cup {"region"}
          /\ inv_columns \in BrokenInventoryColumns
    /\ suppliers \in Rosters
    /\ inventory \in Ledgers
    /\ cow \in BOOLEAN
    /\ sim_delay \in BOOLEAN
    /\ sim_demand_spike \in BOOLEAN

\* every roster of at most MaxSuppliers rows, against the ledgers (which
\* hold no missing cell and no text, so that the pandas build makes no
\* difference to them; the demand spike only changes a ledger)
InitRoster ==
    /\ InitCommon
    /\ sup_columns = required_sup_cols
    /\ inv_columns = required_inv_cols
    /\ suppliers \in Tables(SupplierRows, MaxSuppliers)
    /\ inventory \in Ledgers
    /\ cow = FALSE
    /\ sim_delay \in BOOLEAN
    /\ sim_demand_spike = FALSE

\* every ledger of one row and up to MaxMaterials - 1 filler rows, against
\* the rosters (the delay simulation only changes a roster)
InitLedger ==
    /\ InitCommon
    /\ sup_columns = required_sup_cols
    /\ inv_columns = required_inv_cols
    /\ suppliers \in Rosters
    /\ inventory \in {<<r>> \o rest : r \in InventoryRows,
                                     rest \in Tables(FillerRows, MaxMaterials - 1)}
    /\ cow \in BOOLEAN
    /\ sim_delay = FALSE
    /\ sim_demand_spike \in BOOLEAN

Init == InitSchema \/ InitRoster \/ InitLedger

Next ==
    \/ Validate
    \/ ApplySimulations
    \/ ComputeReliability
    \/ JoinSuppliers
    \/ HealthMetrics
    \/ RiskRules
    \/ Recommend
    \/ ShowKPIs

Spec == Init /\ [][Next]_vars

(***************************************************************************)
(* Properties                                                              *)
(***************************************************************************)
Scored == pc \in {"join", "metrics", "risk", "recommend", "kpis", "done"}
Joined == pc \in {"metrics", "risk", "recommend", "kpis", "done"}
Measured == pc \in {"risk", "recommend", "kpis", "done"}
Recommended == pc \in {"kpis", "done"}

Zero == Num(0, 1)
RosterNames == {suppliers[i].supplier_name : i \in DOMAIN suppliers}
HasKind(rec, kind) == \E j \in DOMAIN rec : rec[j].kind = kind

\* C1: for every supplier row with non-negative integer total_deliveries and
\* on_time_deliveries (on_time_deliveries <= total_deliveries not assumed),
\* 0 <= reliability_pct <= 100, and reliability_pct = 0 when
\* total_deliveries = 0.
C1_ReliabilityInRange ==
    Scored =>
        \A i \in DOMAIN suppliers :
            LET total == suppliers[i].total_deliveries
                on_time == suppliers[i].on_time_deliveries
            IN  (IsNum(total) /\ IsNum(on_time) /\ total.n >= 0 /\ on_time.n >= 0) =>
                    /\ FLe(Zero, reliability_pct[i])
                    /\ FLe(reliability_pct[i], Num(100, 1))
                    /\ (total.n = 0 => reliability_pct[i] = Zero)

\* C2: every supplier has exactly one of the three reliability bands, decided
\* by its reliability_pct alone: Risk for a value <= 74.99, Watch for 75 to
\* 89.99, Reliable for 90 to 100 (75.00 is Watch, 90.00 is Reliable); no
\* supplier is left without a band.
C2_EverySupplierBanded ==
    Scored =>
        \A i \in DOMAIN suppliers :
            LET pct == reliability_pct[i]
                band == reliability_band[i]
            IN  /\ band \in {"Risk (<75%)", "Watch (75-89%)", "Reliable (90%+)"}
                /\ FLe(pct, Num(7499, 100)) => band = "Risk (<75%)"
                /\ (FLe(Num(75, 1), pct) /\ FLe(pct, Num(8999, 100))) => band = "Watch (75-89%)"
                /\ (FLe(Num(90, 1), pct) /\ FLe(pct, Num(100, 1))) => band = "Reliable (90%+)"

\* max(0, round(a - b)) for two numbers, as an integer
MaxZeroRound(a, b) ==
    LET r == RoundHalfEven(a.n * b.d - b.n * a.d, a.d * b.d)
    IN  IF r > 0 THEN r ELSE 0

\* C3: for every inventory record reorder_qty is the integer
\* max(0, round(reorder_point - current_stock)), where reorder_point =
\* safety_stock + effective lead_time_days * avg_daily_usage (0 when that is
\* not a number); so reorder_qty >= 0, and reorder_qty = 0 whenever
\* current_stock >= reorder_point.
C3_ReorderQty ==
    Measured =>
        \A i \in DOMAIN inv :
            LET r == inv[i]
                numeric == IsNum(r.safety_stock) /\ IsNum(r.lead_time_days)
                               /\ IsNum(r.avg_daily_usage)
            IN  /\ reorder_point[i] =
                       IF numeric
                       THEN FAdd(r.safety_stock, FMul(r.lead_time_days, r.avg_daily_usage))
                       ELSE Zero
                /\ reorder_qty[i] \in Nat
                /\ reorder_qty[i] = MaxZeroRound(reorder_point[i], r.current_stock)
                /\ FLe(reorder_point[i], r.current_stock) => reorder_qty[i] = 0

\* C3 witness: a finished run with a record that needs a reorder and a record
\* whose stock is at its reorder point
C3_Witness ==
    /\ pc = "done"
    /\ \E i \in DOMAIN inv : reorder_qty[i] > 0
    /\ \E i \in DOMAIN inv :
           FLe(reorder_point[i], inv[i].current_stock) /\ reorder_qty[i] = 0

\* the avg_lead_time_days of the last roster row named name, NaN if there is none
RosterLeadTime(name) ==
    IF name \in RosterNames
    THEN LET last == CHOOSE i \in DOMAIN suppliers :
                         /\ suppliers[i].supplier_name = name
                         /\ \A j \in DOMAIN suppliers :
                                suppliers[j].supplier_name = name => j <= i
         IN  suppliers[last].avg_lead_time_days
    ELSE NaN

\* the lead time the fallback chain of C4 gives inventory row i
ResolvedLeadTime(i) ==
    LET own == inventory[i].lead_time_days
        avg == RosterLeadTime(inventory[i].primary_supplier)
    IN  IF IsNum(own) /\ own.n > 0 THEN own
        ELSE IF IsNum(avg) THEN avg
        ELSE Num(5, 1)

\* C4: the effective lead_time_days of every inventory record is its own
\* lead_time_days if present and > 0, otherwise the primary supplier's
\* avg_lead_time_days if the primary supplier is in the roster and has one,
\* otherwise 5; reorder_point and the cover check use the resolved value.
C4_LeadTimeFallback ==
    /\ Joined => \A i \in DOMAIN inv : inv[i].lead_time_days = ResolvedLeadTime(i)
    /\ Measured =>
           \A i \in DOMAIN inv :
               (IsNum(inv[i].safety_stock) /\ IsNum(inv[i].avg_daily_usage)) =>
                   reorder_point[i] =
                       FAdd(inv[i].safety_stock,
                            FMul(ResolvedLeadTime(i), inv[i].avg_daily_usage))
    /\ Recommended =>
           \A i \in DOMAIN inv :
               HasKind(recommendation[i], "Increase safety stock")
                   <=> FLt(days_of_cover[i], ResolvedLeadTime(i))

\* C4 witness: a finished run where one record falls back to its supplier's
\* lead time and another record keeps its own
C4_Witness ==
    /\ pc = "done"
    /\ \E i \in DOMAIN inv :
           /\ ~IsNum(inventory[i].lead_time_days)
           /\ IsNum(RosterLeadTime(inventory[i].primary_supplier))
           /\ inv[i].lead_time_days = RosterLeadTime(inventory[i].primary_supplier)
    /\ \E i \in DOMAIN inv :
           /\ IsNum(inventory[i].lead_time_days)
           /\ inv[i].lead_time_days = inventory[i].lead_time_days

\* which of the three rules of C5 fire for inventory row i
Fires(i) ==
    [reorder |-> FLt(inv[i].current_stock, reorder_point[i]),
     reliability |-> FLt(primary_reliability[i], Num(75, 1)),
     cover |-> FLt(days_of_cover[i], inv[i].lead_time_days)]

\* the rule a sentence belongs to
SentenceClass(kind) ==
    CASE kind = "Reorder" -> "reorder"
      [] kind \in {"Switch supplier", "Keep primary"} -> "reliability"
      [] kind = "Increase safety stock" -> "cover"
      [] OTHER -> "none"

ExpectedClasses(f) ==
    (IF f.reorder THEN <<"reorder">> ELSE <<>>)
        \o (IF f.reliability THEN <<"reliability">> ELSE <<>>)
        \o (IF f.cover THEN <<"cover">> ELSE <<>>)

\* C5: the recommendation of every inventory record is, in the order
\* reorder, reliability, cover, exactly one sentence for each rule that fires
\* (reorder: current_stock < reorder_point; reliability: primary_reliability
\* < 75; cover: days_of_cover < lead_time_days), and it is exactly
\* "No action needed." if and only if no rule fires.
C5_RecommendationOrder ==
    Recommended =>
        \A i \in DOMAIN inv :
            LET f == Fires(i)
                rec == recommendation[i]
                none == ~f.reorder /\ ~f.reliability /\ ~f.cover
            IN  /\ ~none => [j \in DOMAIN rec |-> SentenceClass(rec[j].kind)]
                                = ExpectedClasses(f)
                /\ none <=> rec = NoAction

\* C5 witness: a finished run with a record for which all three rules fire
\* and a record for which none does
C5_Witness ==
    /\ pc = "done"
    /\ \E i \in DOMAIN inv :
           /\ Fires(i) = [reorder |-> TRUE, reliability |-> TRUE, cover |-> TRUE]
           /\ Len(recommendation[i]) = 3
    /\ \E i \in DOMAIN inv :
           /\ Fires(i) = [reorder |-> FALSE, reliability |-> FALSE, cover |-> FALSE]
           /\ recommendation[i] = NoAction

\* C6: an inventory record whose primary_supplier is not in the roster has
\* primary_reliability 0.0, supply_risk Unreliable Supplier, overall_risk
\* Risk, and its recommendation holds the "Switch supplier" sentence when
\* backup_reliability > primary_reliability and the "Keep primary" sentence
\* otherwise; a backup_supplier not in the roster has backup_reliability 0.0.
C6_UnknownSupplier ==
    \A i \in DOMAIN inv :
        /\ (Joined /\ inv[i].backup_supplier \notin RosterNames) =>
               backup_reliability[i] = Zero
        /\ inv[i].primary_supplier \notin RosterNames =>
               /\ Joined => primary_reliability[i] = Zero
               /\ pc \in {"recommend", "kpis", "done"} =>
                      /\ supply_risk[i] = "Unreliable Supplier"
                      /\ overall_risk[i] = "Risk"
               /\ Recommended =>
                      IF FGt(backup_reliability[i], primary_reliability[i])
                      THEN /\ HasKind(recommendation[i], "Switch supplier")
                           /\ ~HasKind(recommendation[i], "Keep primary")
                      ELSE /\ HasKind(recommendation[i], "Keep primary")
                           /\ ~HasKind(recommendation[i], "Switch supplier")

\* C6 witness: a finished run with a record whose primary supplier is unknown
\* and whose backup supplier is known and more reliable
C6_Witness ==
    /\ pc = "done"
    /\ \E i \in DOMAIN inv :
           /\ inv[i].primary_supplier \notin RosterNames
           /\ inv[i].backup_supplier \in RosterNames
           /\ HasKind(recommendation[i], "Switch supplier")

MissingColumns ==
    (required_sup_cols \ sup_columns) \cup (required_inv_cols \ inv_columns)

\* the required columns an error message names
ColumnsNamed(msg) ==
    {msg[j] : j \in DOMAIN msg} \cap (required_sup_cols \cup required_inv_cols)

NothingProduced ==
    /\ reliability_pct = <<>> /\ reliability_band = <<>>
    /\ rel_map = <<>> /\ lt_map = <<>> /\ inv = <<>>
    /\ primary_reliability = <<>> /\ backup_reliability = <<>>
    /\ days_of_cover = <<>> /\ reorder_point = <<>> /\ reorder_qty = <<>>
    /\ stock_risk = <<>> /\ supply_risk = <<>> /\ overall_risk = <<>>
    /\ recommendation = <<>> /\ kpis = <<>>

\* C7 as amended: if a required column is missing from either table the run
\* is refused before any row is processed: one fixed error message is shown
\* and no simulation, derived field, KPI or recommendation is produced; if
\* both tables have all required columns the run is not refused.
C7_SchemaRefusal ==
    /\ MissingColumns # {} =>
           /\ pc \in {"start", "stopped"}
           /\ NothingProduced
           /\ raised = ""
           /\ error = IF pc = "stopped" THEN <<ErrorText>> ELSE <<>>
    /\ MissingColumns = {} => (pc # "stopped" /\ error = <<>>)

\* C7 as claimed: as C7_SchemaRefusal, and the error shown lists the missing
\* columns.
C7_ErrorListsMissingColumns ==
    /\ C7_SchemaRefusal
    /\ pc = "stopped" =>
           \E j \in DOMAIN error : ColumnsNamed(error[j]) = MissingColumns

\* C7 witness: a refused run
C7_Witness ==
    /\ pc = "stopped"
    /\ MissingColumns # {}
    /\ error = <<ErrorText>>

\* C8: with both tables passing the schema check, an inventory record with a
\* bad cell (missing or unparseable number, zero divisor, unknown supplier)
\* never aborts the run, and every record gets all derived fields and a
\* recommendation.  Stated for rosters whose own numeric columns hold
\* numbers.
C8_BadCellNeverAborts ==
    (/\ MissingColumns = {}
     /\ ~IsObject(Column(suppliers, "on_time_deliveries"))
     /\ ~IsObject(Column(suppliers, "total_deliveries"))) =>
        /\ pc # "crashed"
        /\ raised = ""
        /\ pc = "done" =>
               \A i \in DOMAIN inventory :
                   /\ i \in DOMAIN reorder_qty
                   /\ i \in DOMAIN overall_risk
                   /\ i \in DOMAIN recommendation

\* C9: whenever the reorder sentence is emitted for a record
\* (current_stock < reorder_point), the quantity it names is at least 1.
C9_ReorderAtLeastOne ==
    Recommended =>
        \A i \in DOMAIN inv :
            /\ FLt(inv[i].current_stock, reorder_point[i]) => reorder_qty[i] >= 1
            /\ \A j \in DOMAIN recommendation[i] :
                   recommendation[i][j].kind = "Reorder" => recommendation[i][j].qty >= 1

NonNegative(x) == IsNum(x) /\ x.n >= 0

\* C10: for every inventory record with non-negative current_stock,
\* safety_stock, avg_daily_usage and effective lead_time_days, overall_risk =
\* Risk implies a recommendation other than "No action needed.": a Low Stock
\* record gets the reorder sentence and an Unreliable Supplier record gets
\* the reliability sentence.
C10_RiskHasRecommendation ==
    Recommended =>
        \A i \in DOMAIN inv :
            (/\ NonNegative(inventory[i].current_stock)
             /\ NonNegative(inventory[i].safety_stock)
             /\ NonNegative(inventory[i].avg_daily_usage)
             /\ NonNegative(inv[i].lead_time_days)) =>
                /\ overall_risk[i] = "Risk" => recommendation[i] # NoAction
                /\ stock_risk[i] = "Low Stock" => HasKind(recommendation[i], "Reorder")
                /\ supply_risk[i] = "Unreliable Supplier" =>
                       \/ HasKind(recommendation[i], "Switch supplier")
                       \/ HasKind(recommendation[i], "Keep primary")

\* C10 witness: a finished run with a Low Stock record of a reliable supplier
\* that gets the reorder sentence, and a record that is not at risk and gets
\* a recommendation all the same
C10_Witness ==
    /\ pc = "done"
    /\ \E i \in DOMAIN inv :
           /\ NonNegative(inventory[i].current_stock)
           /\ NonNegative(inventory[i].safety_stock)
           /\ stock_risk[i] = "Low Stock"
           /\ supply_risk[i] = "OK"
           /\ overall_risk[i] = "Risk"
           /\ HasKind(recommendation[i], "Reorder")
    /\ \E i \in DOMAIN inv :
           /\ overall_risk[i] = "OK"
           /\ recommendation[i] # NoAction
====
